---- MODULE Spec2Model ----
(***************************************************************************)
(* Model of the democoin ledger (blockchain.js): Transaction, Block and    *)
(* Blockchain, with the callers of main.js.                                *)
(*                                                                         *)
(* JavaScript values are tagged records; `+` on strings is concatenation.  *)
(* SHA256 is an ideal digest: the hex text of the digest of s is modelled  *)
(* by the text sha256(s), so two digests are equal iff their inputs are,   *)
(* and the number of leading '0' characters of a digest is drawn from an   *)
(* oracle that remembers every answer it gave.  An ECDSA signature is the  *)
(* pair (signing key, signed digest); it verifies for exactly that pair.   *)
(***************************************************************************)
EXTENDS Integers, Sequences, FiniteSets, TLC

VARIABLES chain, pendingTransactions, zeros, tx, blk, last

vars == <<chain, pendingTransactions, zeros, tx, blk, last>>

----------------------------------------------------------------------------
(* Bounds of the model *)

MaxChain == 3

MaxPending == 1

MaxNonce == 1

MaxDifficulty == 3

\* Calls that changed the ledger, in the runs that are bounded by their number.
MaxCalls == 5

----------------------------------------------------------------------------
(* JavaScript values *)

Null == [t |-> "null"]

Undefined == [t |-> "undefined"]

NaN == [t |-> "nan"]

Str(s) == [t |-> "str", str |-> s]

Num(n) == [t |-> "num", num |-> n]

Bool(b) == [t |-> "bool", bool |-> b]

True == Bool(TRUE)

False == Bool(FALSE)

Arr(a) == [t |-> "arr", arr |-> a]

DigitChars == <<"0", "1", "2", "3", "4", "5", "6", "7", "8", "9">>

RECURSIVE NumDigits(_)
NumDigits(n) ==
    IF n < 10 THEN DigitChars[n + 1]
    ELSE NumDigits(n \div 10) \o DigitChars[(n % 10) + 1]

\* String(x): what `+` with a string operand turns x into.
JsString(x) ==
    CASE x.t = "str" -> x.str
      [] x.t = "num" -> NumDigits(x.num)
      [] x.t = "bool" -> IF x.bool THEN "true" ELSE "false"
      [] x.t = "null" -> "null"
      [] x.t = "undefined" -> "undefined"
      [] OTHER -> "NaN"

\* x + y: concatenation as soon as one operand is a string, else a number.
JsAdd(x, y) ==
    IF x.t = "str" \/ y.t = "str" THEN Str(JsString(x) \o JsString(y))
    ELSE IF x.t \in {"num", "null"} /\ y.t \in {"num", "null"}
         THEN Num((IF x.t = "num" THEN x.num ELSE 0) + (IF y.t = "num" THEN y.num ELSE 0))
         ELSE NaN

\* !x
Falsy(x) ==
    \/ x.t \in {"null", "undefined", "nan"}
    \/ x.t = "str" /\ x.str = ""
    \/ x.t = "num" /\ x.num = 0
    \/ x.t = "bool" /\ ~x.bool

\* SHA256(message).toString(): the hex text of an ideal digest.
SHA256(message) == Str("sha256(" \o JsString(message) \o ")")

\* What a call does besides changing the object: it returns v or throws v.
Return(v) == [k |-> "return", v |-> v]

Throw(message) == [k |-> "throw", message |-> message]

----------------------------------------------------------------------------
(* elliptic: key pairs, named by their public key in hex *)

Keys == {"A", "B"}

\* signingKey.sign(hash, 'base64').toDER('hex')
Sign(key, hash) == [t |-> "sig", signer |-> key, msg |-> hash]

\* ec.keyFromPublic(publicKey, 'hex').verify(hash, signature)
Verify(publicKey, hash, signature) ==
    /\ signature.t = "sig"
    /\ signature.signer = publicKey
    /\ signature.msg = hash

----------------------------------------------------------------------------
(* class Transaction *)

NewTransaction(fromAddress, toAddress, amount) ==
    [fromAddress |-> fromAddress, toAddress |-> toAddress,
     amount |-> amount, signature |-> Undefined]

\* (mutant) a digest that leaves the amount out
TxCalculateHashNoAmount(t) ==
    SHA256(JsAdd(t.fromAddress, t.toAddress))

TxCalculateHash(t) ==
    SHA256(JsAdd(JsAdd(t.fromAddress, t.toAddress), t.amount))

NoSignature == "No signature in this transaction"

NotYourWallet == "You cannot sign transactions for other wallets!"

UnknownPoint == "Unknown point format"

\* (mutant) signing without the check that the key is the sender's
SignTransactionAnyKey(t, signingKey) ==
    [out |-> Return(Undefined),
     tx |-> [t EXCEPT !.signature = Sign(signingKey, TxCalculateHash(t))]]

\* signTransaction(signingKey): the outcome and the transaction afterwards.
SignTransaction(t, signingKey) ==
    IF Str(signingKey) # t.fromAddress
    THEN [out |-> Throw(NotYourWallet), tx |-> t]
    ELSE [out |-> Return(Undefined),
          tx |-> [t EXCEPT !.signature = Sign(signingKey, TxCalculateHash(t))]]

\* (mutant) the signature looked for before the sender is
IsValidSignatureFirst(t) ==
    IF Falsy(t.signature) THEN Throw(NoSignature)
    ELSE IF t.fromAddress = Null THEN Return(True)
    ELSE IF t.fromAddress.t # "str" \/ t.fromAddress.str \notin Keys
         THEN Throw(UnknownPoint)
    ELSE Return(Bool(Verify(t.fromAddress.str, TxCalculateHash(t), t.signature)))

IsValid(t) ==
    IF t.fromAddress = Null THEN Return(True)
    ELSE IF Falsy(t.signature) THEN Throw(NoSignature)
    ELSE IF t.fromAddress.t # "str" \/ t.fromAddress.str \notin Keys
         THEN Throw(UnknownPoint)
    ELSE Return(Bool(Verify(t.fromAddress.str, TxCalculateHash(t), t.signature)))

----------------------------------------------------------------------------
(* class Block *)

BlockCalculateHash(b) ==
    SHA256(JsAdd(JsAdd(JsAdd(JsAdd(Undefined, b.previousHash), b.timestamp),
                       Undefined), b.nonce))

\* new Block(timestamp, transactions, previousHash): the hash is taken
\* before the nonce is assigned.
NewBlock(timestamp, transactions, previousHash) ==
    LET b == [timestamp |-> timestamp, transactions |-> transactions,
              previousHash |-> previousHash, hash |-> Undefined,
              nonce |-> Undefined]
        hashed == [b EXCEPT !.hash = BlockCalculateHash(b)]
    IN  [hashed EXCEPT !.nonce = Num(0)]

\* hash.substring(0, difficulty) === Array(difficulty + 1).join("0"),
\* z the oracle's leading-zero count of every digest it was asked about.
HashPrefixIsZeros(hash, difficulty, z) ==
    difficulty = 0 \/ difficulty <= z[hash.str]

\* (mutant) mineBlock returning without a search
MineBlockNoSearch(b, difficulty, z) == [done |-> TRUE, block |-> b]

\* mineBlock(difficulty) under the oracle z, cut off after MaxNonce
\* iterations: the block on return (done), or where the cut fell.
RECURSIVE MineBlock(_, _, _)
MineBlock(b, difficulty, z) ==
    IF HashPrefixIsZeros(b.hash, difficulty, z) THEN [done |-> TRUE, block |-> b]
    ELSE IF b.nonce.num >= MaxNonce THEN [done |-> FALSE, block |-> b]
    ELSE LET incremented == [b EXCEPT !.nonce = Num(b.nonce.num + 1)]
         IN  MineBlock([incremented EXCEPT !.hash = BlockCalculateHash(incremented)],
                       difficulty, z)

\* The digests mineBlock asks the oracle about, from construction up to
\* the nonce it returns with.
Queried(b, mined) ==
    {b.hash.str} \cup
    {BlockCalculateHash([b EXCEPT !.nonce = Num(n)]).str :
        n \in (b.nonce.num + 1)..mined.nonce.num}

\* Every digest a run of mineBlock on b can ask about within MaxNonce.
Candidates(b) ==
    {b.hash.str} \cup
    {BlockCalculateHash([b EXCEPT !.nonce = Num(n)]).str :
        n \in (b.nonce.num + 1)..MaxNonce}

\* for (const tx of this.transactions): an array yields its elements, a
\* string its characters, whose properties are all undefined.
CharProps ==
    [fromAddress |-> Undefined, toAddress |-> Undefined,
     amount |-> Undefined, signature |-> Undefined]

Elements(transactions) ==
    IF transactions.t = "arr" THEN transactions.arr
    ELSE [i \in 1..Len(transactions.str) |-> CharProps]

RECURSIVE ValidFrom(_, _)
ValidFrom(txs, i) ==
    IF i > Len(txs) THEN Return(True)
    ELSE LET v == IsValid(txs[i])
         IN  IF v.k = "throw" THEN v
             ELSE IF Falsy(v.v) THEN Return(False)
             ELSE ValidFrom(txs, i + 1)

HasValidTransactions(b) == ValidFrom(Elements(b.transactions), 1)

----------------------------------------------------------------------------
(* class Blockchain *)

Difficulty == 2

MiningReward == 100

MissingAddress == "Transaction must include from and to address"

InvalidTransaction == "Cannot add invalid transaction to chain"

CreateGenesisBlock ==
    NewBlock(Str("01/01/2023"),
             Str("Genesis block"),
             Str("0000"))

GetLatestBlock(c) == c[Len(c)]

\* The block minePendingTransactions constructs, before it is mined.
PendingBlock(c, p, miningRewardAddress, now) ==
    LET rewardTx == NewTransaction(Null, miningRewardAddress, Num(MiningReward))
    IN  NewBlock(Num(now), Arr(Append(p, rewardTx)), GetLatestBlock(c).hash)

\* (mutant) the reward queued for the next block instead of this one
MinePendingTransactionsRewardAfter(c, p, miningRewardAddress, now, z) ==
    LET mined == MineBlock(NewBlock(Num(now), Arr(p), GetLatestBlock(c).hash),
                           Difficulty, z)
    IN  [done |-> mined.done,
         chain |-> Append(c, mined.block),
         pendingTransactions |->
             <<NewTransaction(Null, miningRewardAddress, Num(MiningReward))>>]

\* (mutant) the mined block written over the latest block
MinePendingTransactionsOverLatest(c, p, miningRewardAddress, now, z) ==
    LET mined == MineBlock(PendingBlock(c, p, miningRewardAddress, now), Difficulty, z)
    IN  [done |-> mined.done,
         chain |-> [c EXCEPT ![Len(c)] = mined.block],
         pendingTransactions |-> <<>>]

\* (mutant) the pending buffer not reset after the block is committed
MinePendingTransactionsKeepBuffer(c, p, miningRewardAddress, now, z) ==
    LET mined == MineBlock(PendingBlock(c, p, miningRewardAddress, now), Difficulty, z)
    IN  [done |-> mined.done,
         chain |-> Append(c, mined.block),
         pendingTransactions |-> p]

\* minePendingTransactions(miningRewardAddress) at time now under oracle z.
MinePendingTransactions(c, p, miningRewardAddress, now, z) ==
    LET mined == MineBlock(PendingBlock(c, p, miningRewardAddress, now), Difficulty, z)
    IN  [done |-> mined.done,
         chain |-> Append(c, mined.block),
         pendingTransactions |-> <<>>]

\* (mutant) no check that the sender and the recipient are there
AddTransactionNoAddressCheck(p, transaction) ==
    LET v == IsValid(transaction)
    IN  IF v.k = "throw" THEN [out |-> v, pendingTransactions |-> p]
        ELSE IF Falsy(v.v)
        THEN [out |-> Throw(InvalidTransaction), pendingTransactions |-> p]
        ELSE [out |-> Return(Undefined),
              pendingTransactions |-> Append(p, transaction)]

\* (mutant) the transaction pushed before it is checked
AddTransactionPushFirst(p, transaction) ==
    IF Falsy(transaction.fromAddress) \/ Falsy(transaction.toAddress)
    THEN [out |-> Throw(MissingAddress), pendingTransactions |-> Append(p, transaction)]
    ELSE LET v == IsValid(transaction)
         IN  IF v.k = "throw"
             THEN [out |-> v, pendingTransactions |-> Append(p, transaction)]
             ELSE IF Falsy(v.v)
             THEN [out |-> Throw(InvalidTransaction),
                   pendingTransactions |-> Append(p, transaction)]
             ELSE [out |-> Return(Undefined),
                   pendingTransactions |-> Append(p, transaction)]

\* addTransaction(transaction): the outcome and the pending buffer afterwards.
AddTransaction(p, transaction) ==
    IF Falsy(transaction.fromAddress) \/ Falsy(transaction.toAddress)
    THEN [out |-> Throw(MissingAddress), pendingTransactions |-> p]
    ELSE LET v == IsValid(transaction)
         IN  IF v.k = "throw" THEN [out |-> v, pendingTransactions |-> p]
             ELSE IF Falsy(v.v)
             THEN [out |-> Throw(InvalidTransaction), pendingTransactions |-> p]
             ELSE [out |-> Return(Undefined),
                   pendingTransactions |-> Append(p, transaction)]

\* a === b
StrictEq(a, b) == a.t # "nan" /\ a = b

\* a - b
JsSub(a, b) ==
    IF a.t \in {"num", "null"} /\ b.t \in {"num", "null"}
    THEN Num((IF a.t = "num" THEN a.num ELSE 0) - (IF b.t = "num" THEN b.num ELSE 0))
    ELSE NaN

\* (mutant) the sender not debited
RECURSIVE BalanceOverTxsCreditOnly(_, _, _, _)
BalanceOverTxsCreditOnly(txs, j, address, balance) ==
    IF j > Len(txs) THEN balance
    ELSE LET trans == txs[j]
             received == IF StrictEq(trans.toAddress, address)
                         THEN JsAdd(balance, trans.amount) ELSE balance
         IN  BalanceOverTxsCreditOnly(txs, j + 1, address, received)

RECURSIVE BalanceOverTxs(_, _, _, _)
BalanceOverTxs(txs, j, address, balance) ==
    IF j > Len(txs) THEN balance
    ELSE LET trans == txs[j]
             given == IF StrictEq(trans.fromAddress, address)
                      THEN JsSub(balance, trans.amount) ELSE balance
             received == IF StrictEq(trans.toAddress, address)
                         THEN JsAdd(given, trans.amount) ELSE given
         IN  BalanceOverTxs(txs, j + 1, address, received)

RECURSIVE BalanceOverBlocks(_, _, _, _)
BalanceOverBlocks(c, i, address, balance) ==
    IF i > Len(c) THEN balance
    ELSE BalanceOverBlocks(c, i + 1, address,
             BalanceOverTxs(Elements(c[i].transactions), 1, address, balance))

\* (mutant) the pending transactions counted as well
GetBalanceOfAddressWithPending(c, address) ==
    BalanceOverTxs(pendingTransactions, 1, address,
                   BalanceOverBlocks(c, 1, address, Num(0)))

GetBalanceOfAddress(c, address) == BalanceOverBlocks(c, 1, address, Num(0))

\* isChainValid(), from the block at (1-based) position i on.
RECURSIVE ChainValidFrom(_, _)
ChainValidFrom(c, i) ==
    IF i > Len(c) THEN Return(True)
    ELSE LET currentBlock == c[i]
             previousBlock == c[i - 1]
             v == HasValidTransactions(currentBlock)
         IN  IF v.k = "throw" THEN v
             ELSE IF Falsy(v.v) THEN Return(False)
             ELSE IF currentBlock.hash # BlockCalculateHash(currentBlock) THEN Return(False)
             ELSE IF currentBlock.previousHash # previousBlock.hash THEN Return(False)
             ELSE ChainValidFrom(c, i + 1)

IsChainValid(c) == ChainValidFrom(c, 2)

----------------------------------------------------------------------------
(* The callers: what they pass in *)

Senders == {Null, Str(""), Str("A")}

Recipients == {Undefined, Str(""), Str("B")}

Amounts == {10, 25}

RewardAddresses == {Str("A")}

\* Date.now()
Timestamps == {1}

\* The leading-zero counts the oracle answers with.
ZeroCounts == {0, Difficulty}

\* The transaction objects a caller can hold: constructed, then possibly
\* signed with the sender's key, then possibly given another amount.
UnsignedTxs ==
    {NewTransaction(f, t, Num(a)) : f \in Senders, t \in Recipients, a \in Amounts}

SignedTxs ==
    {SignTransaction(t, k).tx : t \in UnsignedTxs, k \in Keys} \ UnsignedTxs

ResignedTxs == {[t EXCEPT !.amount = Num(a)] : t \in SignedTxs, a \in Amounts}

TxInputs == UnsignedTxs \cup SignedTxs \cup ResignedTxs

\* No transaction object in the caller's hands.
NoTx == Undefined

----------------------------------------------------------------------------
(* The state machine *)

\* The last call: what was called and how it ended; with the reward
\* address of a mining call, the difficulty of a mineBlock call, the
\* place (block, transaction) of a tampering.
Called(op, out) == [op |-> op, out |-> out]

CalledMine(miningRewardAddress) ==
    [op |-> "minePendingTransactions", out |-> Return(Undefined),
     miningRewardAddress |-> miningRewardAddress]

CalledMineBlock(difficulty) ==
    [op |-> "mineBlock", out |-> Return(Undefined), difficulty |-> difficulty]

CalledTamper(op, i, j) ==
    [op |-> op, out |-> Return(Undefined), at |-> <<i, j>>]

\* No block object under test.
NoBlock == Undefined

Init ==
    /\ chain = <<CreateGenesisBlock>>
    /\ pendingTransactions = <<>>
    /\ zeros = [h \in {} |-> 0]
    /\ tx = NoTx
    /\ blk = NoBlock
    /\ last = Called("new Blockchain", Return(Undefined))

\* democoin.addTransaction(t)
AddTransactionBody(t) ==
    /\ LET r == AddTransaction(pendingTransactions, t)
       IN  /\ pendingTransactions' = r.pendingTransactions
           /\ last' = Called("addTransaction", r.out)
    /\ UNCHANGED <<chain, zeros, blk>>

AddTransactionCall(t) ==
    /\ Len(pendingTransactions) < MaxPending
    /\ AddTransactionBody(t)

\* addTransaction of an object the caller does not keep.
AddTransactionStep(t) == AddTransactionCall(t) /\ UNCHANGED tx

\* democoin.minePendingTransactions(miningRewardAddress) at time now; the
\* oracle answers for the digests it has not been asked about before.
MinePendingTransactionsCall(miningRewardAddress, now) ==
    /\ LET b == PendingBlock(chain, pendingTransactions, miningRewardAddress, now)
       IN  \E fresh \in [Candidates(b) \ DOMAIN zeros -> ZeroCounts] :
             LET z == zeros @@ fresh
                 r == MinePendingTransactions(chain, pendingTransactions,
                                              miningRewardAddress, now, z)
                 asked == DOMAIN zeros \cup Queried(b, GetLatestBlock(r.chain))
             IN  /\ r.done
                 /\ chain' = r.chain
                 /\ pendingTransactions' = r.pendingTransactions
                 /\ zeros' = [h \in asked |-> z[h]]
    /\ last' = CalledMine(miningRewardAddress)
    /\ UNCHANGED <<tx, blk>>

MinePendingTransactionsStep(miningRewardAddress, now) ==
    /\ Len(chain) < MaxChain
    /\ MinePendingTransactionsCall(miningRewardAddress, now)

Next ==
    \/ \E t \in TxInputs : AddTransactionStep(t)
    \/ \E a \in RewardAddresses, now \in Timestamps : MinePendingTransactionsStep(a, now)

Spec == Init /\ [][Next]_vars

----------------------------------------------------------------------------
(* The same two calls, bounded by how many of them changed the ledger: *)
(* several submissions can wait for one mining call.                    *)

RECURSIVE CommittedCount(_, _)
CommittedCount(c, i) ==
    IF i > Len(c) THEN 0
    ELSE Len(c[i].transactions.arr) + CommittedCount(c, i + 1)

\* Every admitted transaction and every reward is one call that succeeded.
CallsSoFar == CommittedCount(chain, 2) + Len(pendingTransactions)

AddTransactionWithin(t) ==
    /\ CallsSoFar < MaxCalls
    /\ AddTransactionBody(t)
    /\ UNCHANGED tx

MinePendingTransactionsWithin(miningRewardAddress, now) ==
    /\ CallsSoFar < MaxCalls
    /\ MinePendingTransactionsCall(miningRewardAddress, now)

NextLedger ==
    \/ \E t \in TxInputs : AddTransactionWithin(t)
    \/ \E a \in RewardAddresses, now \in Timestamps :
          MinePendingTransactionsWithin(a, now)

SpecLedger == Init /\ [][NextLedger]_vars

----------------------------------------------------------------------------
(* A caller building one transaction object: main.js lines 15-17 *)

\* tx = new Transaction(fromAddress, toAddress, amount)
NewTransactionStep(fromAddress, toAddress, amount) ==
    /\ tx' = NewTransaction(fromAddress, toAddress, Num(amount))
    /\ last' = Called("new Transaction", Return(Undefined))
    /\ UNCHANGED <<chain, pendingTransactions, zeros, blk>>

\* tx.signTransaction(signingKey)
SignTransactionStep(signingKey) ==
    /\ tx # NoTx
    /\ LET r == SignTransaction(tx, signingKey)
       IN  /\ tx' = r.tx
           /\ last' = Called("signTransaction", r.out)
    /\ UNCHANGED <<chain, pendingTransactions, zeros, blk>>

\* tx.amount = amount
SetAmountStep(amount) ==
    /\ tx # NoTx
    /\ tx' = [tx EXCEPT !.amount = Num(amount)]
    /\ last' = Called("set amount", Return(Undefined))
    /\ UNCHANGED <<chain, pendingTransactions, zeros, blk>>

\* democoin.addTransaction(tx); once it is admitted the caller lets go of
\* the object (a later change to it would change the pending buffer).
SubmitStep ==
    /\ tx # NoTx
    /\ AddTransactionCall(tx)
    /\ tx' = IF last'.out.k = "return" THEN NoTx ELSE tx

NextTx ==
    \/ \E f \in Senders \cup {Str(k) : k \in Keys}, t \in Recipients, a \in Amounts :
          NewTransactionStep(f, t, a)
    \/ \E k \in Keys : SignTransactionStep(k)
    \/ \E a \in Amounts : SetAmountStep(a)
    \/ SubmitStep

SpecTx == Init /\ [][NextTx]_vars

----------------------------------------------------------------------------
(* Tampering with a committed block from outside the ledger *)

\* chain[i].transactions[j].amount = amount   (positions 1-based here)
WithAmount(c, i, j, amount) ==
    [c EXCEPT ![i].transactions.arr[j].amount = Num(amount)]

\* chain[i].hash = chain[i].calculateHash()
WithRecalculatedHash(c, i) ==
    [c EXCEPT ![i].hash = BlockCalculateHash(c[i])]

\* delete chain[i].transactions[j].signature
WithoutSignature(c, i, j) ==
    [c EXCEPT ![i].transactions.arr[j].signature = Undefined]

TamperOps == {"tamper amount", "tamper amount and recalculate hash", "tamper signature"}

Untampered == last.op \notin TamperOps

Committed == {<<i, j>> \in (2..Len(chain)) \X (1..MaxPending + 1) :
                 j <= Len(chain[i].transactions.arr)}

TamperAmountStep(i, j, amount) ==
    /\ Untampered
    /\ chain[i].transactions.arr[j].amount # Num(amount)
    /\ chain' = WithAmount(chain, i, j, amount)
    /\ last' = CalledTamper("tamper amount", i, j)
    /\ UNCHANGED <<pendingTransactions, zeros, tx, blk>>

TamperAndRecalculateStep(i, j, amount) ==
    /\ Untampered
    /\ chain[i].transactions.arr[j].amount # Num(amount)
    /\ chain' = WithRecalculatedHash(WithAmount(chain, i, j, amount), i)
    /\ last' = CalledTamper("tamper amount and recalculate hash", i, j)
    /\ UNCHANGED <<pendingTransactions, zeros, tx, blk>>

TamperSignatureStep(i, j) ==
    /\ Untampered
    /\ chain[i].transactions.arr[j].signature # Undefined
    /\ chain' = WithoutSignature(chain, i, j)
    /\ last' = CalledTamper("tamper signature", i, j)
    /\ UNCHANGED <<pendingTransactions, zeros, tx, blk>>

TamperedAmounts == Amounts \cup {MiningReward}

NextTamper ==
    \/ Untampered /\ Next
    \/ \E p \in Committed, a \in TamperedAmounts : TamperAmountStep(p[1], p[2], a)
    \/ \E p \in Committed, a \in TamperedAmounts : TamperAndRecalculateStep(p[1], p[2], a)
    \/ \E p \in Committed : TamperSignatureStep(p[1], p[2])

SpecTamper == Init /\ [][NextTamper]_vars

----------------------------------------------------------------------------
(* One Block object on its own: constructed, then mined *)

BlockTimestamps == {Num(1), Num(2), Num(10)}

BlockTransactions ==
    LET toA == NewTransaction(Null, Str("A"), Num(MiningReward))
        toB == NewTransaction(Null, Str("B"), Num(MiningReward))
    IN  {Arr(<<>>), Arr(<<toA>>), Arr(<<toA, toB>>), Arr(<<toB, toA>>)}

BlockPreviousHashes == {Str(""), Str("0000"), CreateGenesisBlock.hash}

InitBlock ==
    /\ chain = <<CreateGenesisBlock>>
    /\ pendingTransactions = <<>>
    /\ zeros = [h \in {} |-> 0]
    /\ tx = NoTx
    /\ blk \in {NewBlock(ts, txs, prev) :
                  ts \in BlockTimestamps, txs \in BlockTransactions,
                  prev \in BlockPreviousHashes}
    /\ last = Called("new Block", Return(Undefined))

\* blk.mineBlock(difficulty), when it returns within MaxNonce.
MineBlockStep(difficulty) ==
    /\ \E fresh \in [Candidates(blk) \ DOMAIN zeros -> ZeroCounts] :
          LET z == zeros @@ fresh
              r == MineBlock(blk, difficulty, z)
              asked == DOMAIN zeros \cup Queried(blk, r.block)
          IN  /\ r.done
              /\ blk' = r.block
              /\ zeros' = [h \in asked |-> z[h]]
    /\ last' = CalledMineBlock(difficulty)
    /\ UNCHANGED <<chain, pendingTransactions, tx>>

NextBlock == \E d \in 0..MaxDifficulty : MineBlockStep(d)

SpecBlock == InitBlock /\ [][NextBlock]_vars

----------------------------------------------------------------------------
(* mineBlock one loop iteration at a time.  The digest function is fixed   *)
(* before the call: the oracle has an answer for every digest the block    *)
(* can have.  The nonce is a double, which ++ stops changing at 2^53;      *)
(* MaxNonce stands for that point.                                         *)

\* calculateHash() of b if its nonce were n.
DigestAt(b, n) == BlockCalculateHash([b EXCEPT !.nonce = Num(n)])

\* The digests of b: the one the constructor stored and one per nonce.
DigestsOf(b) == {b.hash.str} \cup {DigestAt(b, n).str : n \in 0..MaxNonce}

\* mineBlock(difficulty) has been entered and is at the head of its loop.
InMineBlock(difficulty) == [op |-> "in mineBlock", difficulty |-> difficulty]

InitMine ==
    /\ chain = <<CreateGenesisBlock>>
    /\ pendingTransactions = <<>>
    /\ tx = NoTx
    /\ blk \in {NewBlock(ts, txs, prev) :
                  ts \in BlockTimestamps, txs \in BlockTransactions,
                  prev \in BlockPreviousHashes}
    /\ zeros \in [DigestsOf(blk) -> ZeroCounts]
    /\ last = Called("new Block", Return(Undefined))

\* blk.mineBlock(difficulty) is called.
MineBlockEnter(difficulty) ==
    /\ last.op = "new Block"
    /\ last' = InMineBlock(difficulty)
    /\ UNCHANGED <<chain, pendingTransactions, zeros, tx, blk>>

\* The loop condition holds: this.nonce++; this.hash = this.calculateHash()
MineBlockIterate ==
    /\ last.op = "in mineBlock"
    /\ ~HashPrefixIsZeros(blk.hash, last.difficulty, zeros)
    /\ LET incremented ==
               [blk EXCEPT !.nonce = Num(IF blk.nonce.num < MaxNonce
                                         THEN blk.nonce.num + 1
                                         ELSE blk.nonce.num)]
       IN  blk' = [incremented EXCEPT !.hash = BlockCalculateHash(incremented)]
    /\ UNCHANGED <<chain, pendingTransactions, zeros, tx, last>>

\* The loop condition fails: mineBlock returns.
MineBlockReturn ==
    /\ last.op = "in mineBlock"
    /\ HashPrefixIsZeros(blk.hash, last.difficulty, zeros)
    /\ last' = CalledMineBlock(last.difficulty)
    /\ UNCHANGED <<chain, pendingTransactions, zeros, tx, blk>>

NextMine ==
    \/ \E d \in 0..MaxDifficulty : MineBlockEnter(d)
    \/ MineBlockIterate
    \/ MineBlockReturn

SpecMine == InitMine /\ [][NextMine]_vars

\* The loop is one thread that keeps running until it returns.
SpecMineFair == SpecMine /\ WF_vars(NextMine)

----------------------------------------------------------------------------
(* The claims *)

\* C1 (stated as claimed, under Spec): for every index i > 0 of the chain,
\* chain[i].previousHash equals chain[i-1].hash and chain[i].hash equals
\* chain[i].calculateHash() recomputed from the block's current fields.
C1_LinkedAndSelfHashed ==
    \A i \in 2..Len(chain) :
        /\ chain[i].previousHash = chain[i - 1].hash
        /\ chain[i].hash = BlockCalculateHash(chain[i])

\* C2 (stated as claimed, under SpecTamper): once the amount of a committed
\* transaction has been changed with no re-mining, isChainValid() returns
\* false.
C2_AmountTamperDetected ==
    last.op = "tamper amount" => IsChainValid(chain) = Return(False)

\* C3 (stated as claimed, under SpecBlock): when mineBlock(d) has returned,
\* the block's hash begins with at least d '0' characters and
\* calculateHash() with the resulting nonce equals the stored hash.
C3_MinedHashIsOwnDigest ==
    last.op = "mineBlock" =>
        /\ HashPrefixIsZeros(blk.hash, last.difficulty, zeros)
        /\ BlockCalculateHash(blk) = blk.hash

RewardTx(miningRewardAddress) ==
    NewTransaction(Null, miningRewardAddress, Num(MiningReward))

\* The first mining call has just returned, on a ledger nothing was
\* submitted to: the block it committed holds no transaction with a sender.
FirstMineOnFreshLedger ==
    /\ last.op = "minePendingTransactions"
    /\ Len(chain) = 2
    /\ \A j \in 1..Len(chain[2].transactions.arr) :
          chain[2].transactions.arr[j].fromAddress = Null

C5_RehashDetected ==
    (/\ last.op = "tamper amount and recalculate hash"
     /\ last.at[1] = 2
     /\ Len(chain) >= 3)
    => IsChainValid(chain) = Return(False)

QueryAddresses == {Str("A"), Str("B"), Str("C")}

\* C6 (stated as claimed, under SpecTamper): in every ledger state,
\* tampered ones included, isChainValid() returns (it does not raise) and
\* getBalanceOfAddress(a) returns a number.
C6_QueriesNeverRaise ==
    /\ IsChainValid(chain).k = "return"
    /\ \A a \in QueryAddresses : GetBalanceOfAddress(chain, a).t = "num"

\* C7 (under Spec): addTransaction(t) throws the missing-address error when
\* the sender or the recipient is absent or empty, throws the invalid-
\* transaction error when both are present and t.isValid() is false; every
\* failing call leaves pendingTransactions and chain as they were, and a
\* successful one appends t as the last pending transaction.
C7_AdmissionGate ==
    /\ [](\A t \in TxInputs :
            LET r == AddTransaction(pendingTransactions, t)
            IN  /\ (Falsy(t.fromAddress) \/ Falsy(t.toAddress))
                      => r.out = Throw(MissingAddress)
                /\ (~Falsy(t.fromAddress) /\ ~Falsy(t.toAddress)
                      /\ IsValid(t) = Return(False))
                      => r.out = Throw(InvalidTransaction)
                /\ r.out.k = "throw"
                      => r.pendingTransactions = pendingTransactions
                /\ r.out.k = "return"
                      => r.pendingTransactions = Append(pendingTransactions, t))
    /\ [][last'.op = "addTransaction" =>
            /\ chain' = chain
            /\ last'.out.k = "throw" => pendingTransactions' = pendingTransactions
            /\ last'.out.k = "return" =>
                  /\ Len(pendingTransactions') = Len(pendingTransactions) + 1
                  /\ SubSeq(pendingTransactions', 1, Len(pendingTransactions))
                        = pendingTransactions]_vars

\* An unsigned transaction with a sender has just been refused.
C7_Witness ==
    /\ last.op = "addTransaction"
    /\ last.out = Throw(NoSignature)

\* C8 (stated as claimed, under Spec): after any sequence of addTransaction
\* and minePendingTransactions calls isChainValid() returns true.
C8_HonestChainValid == IsChainValid(chain) = Return(True)

\* C9 (under SpecTx): a transaction signTransaction has just signed is
\* valid, and changing the amount of a valid transaction that has a sender
\* to a different value makes isValid() return false.
C9_SignedValidUntilAmountChanges ==
    [][/\ (last'.op = "signTransaction" /\ last'.out.k = "return")
             => IsValid(tx') = Return(True)
       /\ (/\ last'.op = "set amount"
           /\ tx.fromAddress # Null
           /\ IsValid(tx) = Return(True)
           /\ tx'.amount # tx.amount)
             => IsValid(tx') = Return(False)]_vars

\* A signed transaction whose amount was changed afterwards.
C9_Witness ==
    /\ last.op = "set amount"
    /\ tx # NoTx
    /\ tx.signature.t = "sig"
    /\ tx.signature.msg # TxCalculateHash(tx)
    /\ IsValid(tx) = Return(False)

\* C10 (under SpecTx): signTransaction with a key that is not the sender's
\* throws the other-wallet error and leaves the transaction as it was; the
\* transaction (A, B, 10) signed with A's key is accepted by addTransaction.
C10_OnlyOwnerSigns ==
    [][/\ \A k \in Keys :
            (SignTransactionStep(k) /\ Str(k) # tx.fromAddress)
               => last'.out = Throw(NotYourWallet) /\ tx' = tx
       /\ (SubmitStep
           /\ tx = SignTransaction(NewTransaction(Str("A"), Str("B"), Num(10)), "A").tx)
               => /\ last'.out.k = "return"
                  /\ pendingTransactions' = Append(pendingTransactions, tx)]_vars

\* A signed transaction has just been refused another wallet's signature.
C10_Witness ==
    /\ last.op = "signTransaction"
    /\ last.out = Throw(NotYourWallet)
    /\ tx # NoTx
    /\ tx.signature.t = "sig"

\* C11 (under SpecLedger): pendingTransactions grows only by an admitted
\* transaction appended at its end; a minePendingTransactions(r) call
\* appends exactly one block, whose transactions are the pending buffer as
\* it stood, in order, followed by the reward (no sender, recipient r,
\* amount miningReward) as the last element, and leaves the buffer empty.
C11_BlockIsPendingThenReward ==
    [][/\ last'.op = "addTransaction" =>
             IF last'.out.k = "return"
             THEN \E t \in TxInputs :
                     pendingTransactions' = Append(pendingTransactions, t)
             ELSE pendingTransactions' = pendingTransactions
       /\ last'.op = "minePendingTransactions" =>
             /\ Len(chain') = Len(chain) + 1
             /\ GetLatestBlock(chain').transactions =
                   Arr(Append(pendingTransactions, RewardTx(last'.miningRewardAddress)))
             /\ pendingTransactions' = <<>>]_vars

\* The second mining call committed two transfers in the order they were
\* submitted, then its reward.
C11_Witness ==
    /\ last.op = "minePendingTransactions"
    /\ Len(chain) = 3
    /\ pendingTransactions = <<>>
    /\ LET txs == chain[3].transactions.arr
       IN  /\ Len(txs) = 3
           /\ txs[1].amount = Num(10) /\ txs[1].fromAddress = Str("A")
           /\ txs[2].amount = Num(25) /\ txs[2].fromAddress = Str("A")
           /\ txs[3] = RewardTx(Str("A"))
           /\ \A j \in 1..Len(chain[2].transactions.arr) :
                 chain[2].transactions.arr[j] \notin {txs[1], txs[2]}

\* C12 (under SpecLedger): the chain is never empty and chain[0] is the
\* genesis block with previousHash '0000'; minePendingTransactions makes
\* the chain one block longer, addTransaction leaves the chain as it was,
\* and no call changes a block that is already in the chain.
C12_AppendOnly ==
    /\ [](/\ Len(chain) >= 1
          /\ chain[1] = CreateGenesisBlock
          /\ chain[1].previousHash = Str("0000"))
    /\ [][/\ last'.op = "minePendingTransactions" => Len(chain') = Len(chain) + 1
          /\ last'.op = "addTransaction" => chain' = chain
          /\ Len(chain') >= Len(chain)
          /\ \A i \in 1..Len(chain) : chain'[i] = chain[i]]_vars

\* A transaction was admitted after two mining calls and waits in the
\* buffer; it is in neither block.
C12_Witness ==
    /\ last.op = "addTransaction"
    /\ last.out.k = "return"
    /\ Len(chain) = 3
    /\ Len(pendingTransactions) = 1
    /\ \A i \in 2..3 : Len(chain[i].transactions.arr) = 1

\* C13 (stated as claimed, under SpecBlock): a block that agrees with blk
\* on previousHash, timestamp and nonce but holds other transactions, or
\* the same ones in another order, has another calculateHash().
C13_DigestCoversTransactions ==
    \A txs \in BlockTransactions :
        txs # blk.transactions =>
            BlockCalculateHash([blk EXCEPT !.transactions = txs]) # BlockCalculateHash(blk)

\* Every element of every committed block, genesis included, in chain order.
RECURSIVE CommittedFrom(_, _)
CommittedFrom(c, i) ==
    IF i > Len(c) THEN <<>>
    ELSE Elements(c[i].transactions) \o CommittedFrom(c, i + 1)

RECURSIVE SumOfAmounts(_)
SumOfAmounts(txs) ==
    IF txs = <<>> THEN 0 ELSE Head(txs).amount.num + SumOfAmounts(Tail(txs))

ReceivedBy(a) ==
    SumOfAmounts(SelectSeq(CommittedFrom(chain, 1), LAMBDA t : t.toAddress = a))

SentBy(a) ==
    SumOfAmounts(SelectSeq(CommittedFrom(chain, 1), LAMBDA t : t.fromAddress = a))

\* C14 (under SpecLedger): getBalanceOfAddress(a) is the sum of the amounts
\* of the committed transactions a receives minus the sum of those a sends,
\* whatever is pending, and 0 for an address no committed transaction names.
C14_BalanceIsReceivedMinusSent ==
    \A a \in QueryAddresses :
        /\ GetBalanceOfAddress(chain, a) = Num(ReceivedBy(a) - SentBy(a))
        /\ (\A i \in 1..Len(CommittedFrom(chain, 1)) :
               LET t == CommittedFrom(chain, 1)[i]
               IN  t.fromAddress # a /\ t.toAddress # a)
              => GetBalanceOfAddress(chain, a) = Num(0)

\* A has been paid one reward and has sent 25 to B in a committed block;
\* A's next transfer is still pending and is in nobody's balance.
C14_Witness ==
    /\ Len(pendingTransactions) = 1
    /\ pendingTransactions[1].fromAddress = Str("A")
    /\ GetBalanceOfAddress(chain, Str("A")) = Num(75)
    /\ GetBalanceOfAddress(chain, Str("B")) = Num(25)
    /\ GetBalanceOfAddress(chain, Str("C")) = Num(0)

\* What the signature field can hold: nothing, the empty string, a signature.
SignatureInputs ==
    {Undefined, Str(""),
     Sign("A", TxCalculateHash(NewTransaction(Str("A"), Str("B"), Num(10))))}

\* C15 (under SpecTx): isValid() returns true when the sender is null,
\* whatever the recipient, amount and signature; with a sender and a
\* signature that is absent or empty it throws the no-signature error;
\* with a sender and a signature it returns what verifying the signature
\* for the sender over calculateHash() gives, false on a mismatch; it has
\* no other outcome.
C15_ThreeOutcomes ==
    /\ \A r \in Recipients, a \in Amounts, sg \in SignatureInputs :
          IsValid([NewTransaction(Null, r, Num(a)) EXCEPT !.signature = sg])
             = Return(True)
    /\ \A k \in Keys, r \in Recipients, a \in Amounts :
          IsValid([NewTransaction(Str(k), r, Num(a)) EXCEPT !.signature = Str("")])
             = Throw(NoSignature)
    /\ tx # NoTx =>
          /\ (tx.fromAddress # Null /\ tx.signature \in {Undefined, Str("")})
                => IsValid(tx) = Throw(NoSignature)
          /\ (tx.fromAddress # Null /\ tx.signature.t = "sig")
                => IsValid(tx) = Return(Bool(Verify(tx.fromAddress.str,
                                                    TxCalculateHash(tx), tx.signature)))
          /\ IsValid(tx) \in {Return(True), Return(False), Throw(NoSignature)}

\* A transaction whose signature does not match was refused by
\* addTransaction: isValid() returned false, it did not throw.
C15_Witness ==
    /\ last.op = "addTransaction"
    /\ last.out = Throw(InvalidTransaction)
    /\ tx # NoTx
    /\ IsValid(tx) = Return(False)

\* C16 (stated as claimed, under SpecBlock): a block that has just been
\* constructed, and the genesis block at chain[0], has nonce 0 and a hash
\* equal to calculateHash() on its fields.
C16_FreshBlockHashMatchesNonce ==
    /\ chain[1].nonce = Num(0)
    /\ chain[1].hash = BlockCalculateHash(chain[1])
    /\ last.op = "new Block" =>
          /\ blk.nonce = Num(0)
          /\ blk.hash = BlockCalculateHash(blk)

\* Recipients and amounts whose texts run into each other: 'B' then 10 and
\* 'B1' then 0.
RunTogetherRecipients == {Str("B"), Str("B1")}

RunTogetherAmounts == {0, 10}

\* C17 (stated as claimed, under SpecTx): a transaction with the sender of
\* a validly signed tx but another recipient or amount has another
\* calculateHash(), and tx's signature does not verify for it.
C17_SignatureBindsTriple ==
    (tx # NoTx /\ tx.fromAddress # Null /\ IsValid(tx) = Return(True)) =>
        \A r \in RunTogetherRecipients, a \in RunTogetherAmounts :
            LET other == [tx EXCEPT !.toAddress = r, !.amount = Num(a)]
            IN  (other.toAddress # tx.toAddress \/ other.amount # tx.amount) =>
                    /\ TxCalculateHash(other) # TxCalculateHash(tx)
                    /\ IsValid(other) # Return(True)

\* Some nonce gives blk a digest that begins with d '0' characters.
SomeNonceYields(d) ==
    \E n \in 0..MaxNonce : HashPrefixIsZeros(DigestAt(blk, n), d, zeros)

\* C18 (stated as claimed, under SpecMineFair): mineBlock(d) starts from
\* nonce 0; an iteration adds 1 to the nonce, never lowers it, and
\* recomputes the hash; it returns only with a stored hash that begins with
\* d '0' characters; once called it returns if some nonce yields a digest
\* with d leading zeros, and never returns if none does.
C18_SearchFindsWhatExists ==
    /\ [][/\ (last.op = "new Block" /\ last'.op = "in mineBlock")
                => blk'.nonce = Num(0)
          /\ (last.op = "in mineBlock" /\ last'.op = "in mineBlock")
                => /\ blk'.nonce.num >= blk.nonce.num
                   /\ blk.nonce.num < MaxNonce => blk'.nonce.num = blk.nonce.num + 1
                   /\ blk'.hash = BlockCalculateHash(blk')
          /\ last'.op = "mineBlock"
                => HashPrefixIsZeros(blk'.hash, last'.difficulty, zeros)]_vars
    /\ [](last.op = "in mineBlock" =>
            IF SomeNonceYields(last.difficulty)
            THEN <>(last.op = "mineBlock")
            ELSE [](last.op # "mineBlock"))

\* The addresses that occur in the transactions of the mined blocks.
CommittedAddresses ==
    LET txs == CommittedFrom(chain, 2)
    IN  ({txs[i].fromAddress : i \in 1..Len(txs)} \cup
         {txs[i].toAddress : i \in 1..Len(txs)}) \ {Null}

RECURSIVE SumOfBalances(_)
SumOfBalances(addresses) ==
    IF addresses = {} THEN 0
    ELSE LET a == CHOOSE x \in addresses : TRUE
         IN  GetBalanceOfAddress(chain, a).num + SumOfBalances(addresses \ {a})

\* C19 (under SpecLedger): the balances of the addresses that occur in
\* committed transactions add up to miningReward times the number of
\* mined blocks.
C19_ValueConserved ==
    SumOfBalances(CommittedAddresses) = MiningReward * (Len(chain) - 1)

\* Two mined blocks, the second one carrying A's transfers of 10 and 25
\* to B: 165 and 35 add up to two rewards.
C19_Witness ==
    /\ Len(chain) = 3
    /\ CommittedAddresses = {Str("A"), Str("B")}
    /\ GetBalanceOfAddress(chain, Str("A")) = Num(165)
    /\ GetBalanceOfAddress(chain, Str("B")) = Num(35)

\* C20 (under SpecLedger): every pending transaction has a sender, a
\* recipient and a signature that verifies for its sender; every mined
\* block holds exactly one transaction without a sender, as its last
\* element; addTransaction refuses every transaction without a sender.
C20_OnlyRewardsAreSenderless ==
    /\ \A j \in 1..Len(pendingTransactions) :
          LET t == pendingTransactions[j]
          IN  /\ ~Falsy(t.fromAddress)
              /\ ~Falsy(t.toAddress)
              /\ Verify(t.fromAddress.str, TxCalculateHash(t), t.signature)
    /\ \A i \in 2..Len(chain) :
          LET txs == chain[i].transactions.arr
          IN  /\ Len(txs) >= 1
              /\ \A j \in 1..Len(txs) : (txs[j].fromAddress = Null) <=> (j = Len(txs))
    /\ \A t \in TxInputs :
          t.fromAddress = Null =>
              /\ AddTransaction(pendingTransactions, t).out = Throw(MissingAddress)
              /\ AddTransaction(pendingTransactions, t).pendingTransactions
                    = pendingTransactions

\* With a mined block in the chain and a signed transfer pending, a
\* transaction without a sender or recipient has just been refused.
C20_Witness ==
    /\ last.op = "addTransaction"
    /\ last.out = Throw(MissingAddress)
    /\ Len(chain) >= 2
    /\ Len(pendingTransactions) >= 1

\* C21 (under SpecLedger): the hash of every block after the genesis block
\* begins with `difficulty` '0' characters; nothing is asked of the
\* genesis block's hash.
C21_CommittedBlocksCarryProofOfWork ==
    \A i \in 2..Len(chain) :
        /\ chain[i].hash.str \in DOMAIN zeros
        /\ zeros[chain[i].hash.str] >= Difficulty
        /\ HashPrefixIsZeros(chain[i].hash, Difficulty, zeros)

\* Two mined blocks: one whose search took an iteration, one whose first
\* digest was already good; the genesis hash was never examined.
C21_Witness ==
    /\ Len(chain) = 3
    /\ \E i \in 2..3 : chain[i].nonce = Num(1)
    /\ \E i \in 2..3 : chain[i].nonce = Num(0)
    /\ chain[1].hash.str \notin DOMAIN zeros

====
